---- MODULE Spec2Model ----
(***************************************************************************)
(* base.Value and base.ErrorValue of barista (src/base/value.go): an       *)
(* atomic.Value slot, a subscriber list of notifiers behind a              *)
(* sync.RWMutex, and the value-or-error wrapper built on top of it.        *)
(*                                                                         *)
(* Goroutines are the members of Callers; every call of the API is split   *)
(* at the points where another goroutine can interleave (the atomic store, *)
(* the lock operations, every Notify of the broadcast loop).  The          *)
(* consumer side of a Ticker (the receive on Tick() in the select of a     *)
(* module worker) is a step of whoever was handed the Ticker.              *)
(***************************************************************************)
EXTENDS Naturals, Integers, Sequences, FiniteSets, TLC

(* ------------------------------------------------------------ bounds --- *)
\* Total number of Set calls (Value.Set, ErrorValue.Set, ErrorValue.Error
\* with a non-nil error) of one behaviour.
MaxSets == 2
\* Total number of Subscribe calls of one behaviour.
MaxSubs == 2

Callers == {"g1", "g2"}
\* The consumer goroutine of a module.
Worker == "w"
Procs == Callers \cup {Worker}
NoOne == "none"

(* ------------------------------------------------------------ values --- *)
\* A Go interface{} value is a dynamic type and a value of it; nil is the
\* interface without dynamic type.
Nil == [typ |-> "nil"]
IntV(k) == [typ |-> "int", val |-> k]
Int64V(k) == [typ |-> "int64", val |-> k]
ErrV(k) == [typ |-> "error", val |-> k]
BoolV(b) == [typ |-> "bool", val |-> b]
TickerV(i) == [typ |-> "ticker", val |-> i]
PairV(v, e) == [typ |-> "pair", fst |-> v, snd |-> e]
TypeOf(v) == v.typ

\* What a caller may pass to Value.Set.
Values == {Nil, IntV(5), IntV(7), Int64V(5)}
\* What a caller may pass to ErrorValue.Set and ErrorValue.Error.
Payloads == {Nil, IntV(5)}
Errors == {Nil, ErrV(1)}

\* type valueOrErr struct { value interface{}; err error }
valueOrErr(v, e) == [typ |-> "valueOrErr", value |-> v, err |-> e]

(* ------------------------------------------------------- atomic.Value --- *)
\* atomic.Value.Store panics on nil and on a value whose concrete type
\* differs from the type of the first value stored.
StorePanics(cur, v) ==
    \/ v = Nil
    \/ cur # Nil /\ TypeOf(cur) # TypeOf(v)

\* Mutation: a store that takes effect on an empty slot only.
StoreFirstOnly(cur, v) == IF cur = Nil THEN v ELSE cur
Store(cur, v) == v

\* Mutation: a load that reads a fresh, empty slot.
LoadUnset(cur) == Nil
Load(cur) == cur

(* ------------------------------------------------- notifier (1-slot) --- *)
\* notifier.New(): a wake channel holding at most one pending wake.
NotifierNew == 0
\* Notify: non-blocking, a wake on a pending notifier is dropped.
Notify(c) == IF c = 0 THEN 1 ELSE c
\* The wait handle of Tick() is ready exactly when a wake is pending.
TickReady(c) == c > 0
\* Receiving from Tick() takes the pending wake.
TickTake(c) == c - 1

VARIABLES
    value,      \* Value.value: the slot (Nil while nothing was stored)
    subs,       \* Value.subs: sequence of notifier ids
    subM,       \* Value.subM: [writer, readers]
    pending,    \* pending[i]: wakes buffered in notifier i
    pc,         \* pc[p]: where goroutine p is in its current call
    op,         \* op[p]: the API call p is in ("none" between calls)
    n,          \* n[p]: local n of Subscribe
    rng,        \* rng[p]: the slice the range loop of Set iterates
    idx,        \* idx[p]: position of that loop
    held,       \* held[i]: Subscribe has returned ticker i to its caller
    res,        \* outcome of the call of a Caller that ended last
    \* history variables
    lastStored, \* argument of the most recent Store that took effect
    nstored,    \* number of Stores that took effect
    nsets,      \* number of Set calls begun
    last,       \* [op, arg, seq] of the Set call begun last; seq: no other
                \* Set call was running when it began
    startSubs,  \* startSubs[p]: Value.subs when p's Set call began
    startHeld,  \* startHeld[p]: the listed tickers already returned then
    stIdx,      \* stIdx[p]: index of the Store of p's Set call
    notified,   \* notified[p]: ids notified by p's Set call, in order
    wakeIdx,    \* wakeIdx[i]: index of the newest Store whose Set notified i
    drained,    \* drained[i]: ticker i was drained at least once
    \* the consumer goroutine of a module (the worker started by Stream)
    wpc,        \* where the consumer is in its code ("off": not started)
    wfn,        \* its local outputFunc: the value of its latest Get
    wtk         \* its local Ticker (0 while it has none)

shared == <<value, subs, subM, pending>>
locals == <<pc, op, n, rng, idx>>
stores == <<lastStored, nstored, nsets, last>>
bcast == <<startSubs, startHeld, stIdx, notified>>
ticks == <<wakeIdx, drained>>
cons == <<wpc, wfn, wtk>>

vars == <<shared, locals, held, res, stores, bcast, ticks, cons>>

\* The record of an ended call: what was called, how it ended ("returned"
\* or "panicked"), what it returned, whether it stored into the slot, and
\* for a Set the tickers that were listed and returned by Subscribe when it
\* began, and the listed subscribers it did not notify exactly once.
Result(o, st, r, sd, ss, miss) ==
    [op |-> o, status |-> st, ret |-> r, stored |-> sd, start |-> ss,
     missed |-> miss]

Init ==
    /\ value = Nil
    /\ subs = <<>>
    /\ subM = [writer |-> NoOne, readers |-> {}]
    /\ pending = <<>>
    /\ pc = [p \in Procs |-> "idle"]
    /\ op = [p \in Procs |-> "none"]
    /\ n = [p \in Procs |-> 0]
    /\ rng = [p \in Callers |-> <<>>]
    /\ idx = [p \in Callers |-> 0]
    /\ held = <<>>
    /\ res = Result("none", "none", Nil, FALSE, {}, {})
    /\ lastStored = Nil
    /\ nstored = 0
    /\ nsets = 0
    /\ last = [op |-> "none", arg |-> Nil, seq |-> TRUE]
    /\ startSubs = [p \in Callers |-> <<>>]
    /\ startHeld = [p \in Callers |-> {}]
    /\ stIdx = [p \in Callers |-> 0]
    /\ notified = [p \in Callers |-> <<>>]
    /\ wakeIdx = <<>>
    /\ drained = <<>>
    /\ wpc = "off"
    /\ wfn = Nil
    /\ wtk = 0

(* ------------------------------------------------------------ helpers --- *)
Max(a, b) == IF a >= b THEN a ELSE b
Range(s) == {s[k] : k \in 1..Len(s)}
Count(s, x) == Cardinality({k \in 1..Len(s) : s[k] = x})
SetInFlight(p) == pc[p] \in {"set_rlock", "set_loop"}
NoSetInFlight == \A p \in Callers : ~SetInFlight(p)
\* The tickers of the list ss that Subscribe has returned to its caller.
Held(ss) == {i \in Range(ss) : held[i]}
\* The subscribers of ss that the notifications nn do not cover exactly once.
Missed(ss, nn) == {i \in Range(ss) : Count(nn, i) # 1}

(* ---------------------------------------------------------- Value.Get --- *)
\* func (v *Value) Get() interface{} { return v.value.Load() }
Get(p) ==
    /\ pc[p] = "idle"
    /\ res' = Result("Get", "returned", Load(value), FALSE, {}, {})
    /\ UNCHANGED <<shared, locals, held, stores, bcast, ticks, cons>>

(* ---------------------------------------------------------- Value.Set --- *)
\* v.value.Store(value): the first statement of Set.  A panic of Store
\* leaves Set before any lock is taken and before any Notify.
SetStore(p, v, o, a) ==
    /\ pc[p] = "idle"
    /\ nsets < MaxSets
    /\ nsets' = nsets + 1
    /\ last' = [op |-> o, arg |-> a, seq |-> NoSetInFlight]
    /\ IF StorePanics(value, v)
       THEN /\ res' = Result(o, "panicked", Nil, FALSE, Held(subs),
                             Missed(subs, <<>>))
            /\ UNCHANGED <<value, locals, lastStored, nstored, startSubs,
                           startHeld, stIdx, notified>>
       ELSE /\ value' = Store(value, v)
            /\ lastStored' = v
            /\ nstored' = nstored + 1
            /\ stIdx' = [stIdx EXCEPT ![p] = nstored + 1]
            /\ startSubs' = [startSubs EXCEPT ![p] = subs]
            /\ startHeld' = [startHeld EXCEPT ![p] = Held(subs)]
            /\ pc' = [pc EXCEPT ![p] = "set_rlock"]
            /\ op' = [op EXCEPT ![p] = o]
            /\ UNCHANGED <<n, rng, idx, res, notified>>
    /\ UNCHANGED <<subs, subM, pending, held, ticks, cons>>

Set(p, v) == SetStore(p, v, "Set", v)

\* v.subM.RLock(); defer v.subM.RUnlock(); for _, n := range v.subs
\* RLock waits while a writer holds the mutex or has announced itself.
SetRLock(p) ==
    /\ pc[p] = "set_rlock"
    /\ subM.writer = NoOne
    /\ subM' = [subM EXCEPT !.readers = @ \cup {p}]
    /\ rng' = [rng EXCEPT ![p] = subs]
    /\ idx' = [idx EXCEPT ![p] = 1]
    /\ pc' = [pc EXCEPT ![p] = "set_loop"]
    /\ UNCHANGED <<value, subs, pending, op, n, held, res, stores,
                   bcast, ticks, cons>>

\* Mutation: Notify as a send that waits until the consumer took the
\* wake before.
SetNotifyWaits(p) ==
    /\ pc[p] = "set_loop"
    /\ idx[p] <= Len(rng[p])
    /\ pending[rng[p][idx[p]]] = 0
    /\ LET i == rng[p][idx[p]] IN
        /\ pending' = [pending EXCEPT ![i] = Notify(@)]
        /\ notified' = [notified EXCEPT ![p] = Append(@, i)]
        /\ wakeIdx' = [wakeIdx EXCEPT ![i] = Max(@, stIdx[p])]
    /\ idx' = [idx EXCEPT ![p] = @ + 1]
    /\ UNCHANGED <<value, subs, subM, pc, op, n, rng, held, res,
                   stores, startSubs, startHeld, stIdx, drained, cons>>

\* One iteration of the loop: n.Notify()
SetNotify(p) ==
    /\ pc[p] = "set_loop"
    /\ idx[p] <= Len(rng[p])
    /\ LET i == rng[p][idx[p]] IN
        /\ pending' = [pending EXCEPT ![i] = Notify(@)]
        /\ notified' = [notified EXCEPT ![p] = Append(@, i)]
        /\ wakeIdx' = [wakeIdx EXCEPT ![i] = Max(@, stIdx[p])]
    /\ idx' = [idx EXCEPT ![p] = @ + 1]
    /\ UNCHANGED <<value, subs, subM, pc, op, n, rng, held, res,
                   stores, startSubs, startHeld, stIdx, drained, cons>>

\* The loop is over: the deferred RUnlock runs and Set returns.
SetRUnlock(p) ==
    /\ pc[p] = "set_loop"
    /\ idx[p] > Len(rng[p])
    /\ subM' = [subM EXCEPT !.readers = @ \ {p}]
    /\ pc' = [pc EXCEPT ![p] = "idle"]
    /\ op' = [op EXCEPT ![p] = "none"]
    /\ rng' = [rng EXCEPT ![p] = <<>>]
    /\ idx' = [idx EXCEPT ![p] = 0]
    /\ res' = Result(op[p], "returned",
                     IF op[p] = "Error" THEN BoolV(TRUE) ELSE Nil, TRUE,
                     startHeld[p], Missed(startSubs[p], notified[p]))
    /\ startSubs' = [startSubs EXCEPT ![p] = <<>>]
    /\ startHeld' = [startHeld EXCEPT ![p] = {}]
    /\ stIdx' = [stIdx EXCEPT ![p] = 0]
    /\ notified' = [notified EXCEPT ![p] = <<>>]
    /\ UNCHANGED <<value, subs, pending, n, held, stores, ticks, cons>>

(* ---------------------------------------------------- Value.Subscribe --- *)
\* Mutation: a Subscribe that hands out a Ticker already pending when a
\* value is stored.
SubscribeReady(p) ==
    /\ pc[p] = "idle"
    /\ Len(pending) < MaxSubs
    /\ pending' = Append(pending, IF value = Nil THEN NotifierNew ELSE 1)
    /\ n' = [n EXCEPT ![p] = Len(pending) + 1]
    /\ pc' = [pc EXCEPT ![p] = "sub_lock"]
    /\ op' = [op EXCEPT ![p] = "Subscribe"]
    /\ held' = Append(held, FALSE)
    /\ wakeIdx' = Append(wakeIdx, 0)
    /\ drained' = Append(drained, FALSE)
    /\ UNCHANGED <<value, subs, subM, rng, idx, res, stores, bcast, cons>>

\* n := notifier.New()
Subscribe(p) ==
    /\ pc[p] = "idle"
    /\ Len(pending) < MaxSubs
    /\ pending' = Append(pending, NotifierNew)
    /\ n' = [n EXCEPT ![p] = Len(pending) + 1]
    /\ pc' = [pc EXCEPT ![p] = "sub_lock"]
    /\ op' = [op EXCEPT ![p] = "Subscribe"]
    /\ held' = Append(held, FALSE)
    /\ wakeIdx' = Append(wakeIdx, 0)
    /\ drained' = Append(drained, FALSE)
    /\ UNCHANGED <<value, subs, subM, rng, idx, res, stores, bcast, cons>>

\* v.subM.Lock(), first half: the writer announces itself; from here on
\* new readers wait, and the writer waits for the readers inside to leave.
SubscribeLock(p) ==
    /\ pc[p] = "sub_lock"
    /\ subM.writer = NoOne
    /\ subM' = [subM EXCEPT !.writer = p]
    /\ pc' = [pc EXCEPT ![p] = "sub_append"]
    /\ UNCHANGED <<value, subs, pending, op, n, rng, idx, held, res,
                   stores, bcast, ticks, cons>>

\* Mutation: the new subscriber put in front of the list.
AppendInFront(s, x) == <<x>> \o s
\* Mutation: the list replaced by the new subscriber instead of extended.
AppendReplaces(s, x) == <<x>>
\* append(v.subs, n)
AppendSub(s, x) == Append(s, x)

\* Lock() returns once no reader is left; v.subs = append(v.subs, n)
SubscribeAppend(p) ==
    /\ pc[p] = "sub_append"
    /\ subM.readers = {}
    /\ subs' = AppendSub(subs, n[p])
    /\ pc' = [pc EXCEPT ![p] = "sub_unlock"]
    /\ UNCHANGED <<value, subM, pending, op, n, rng, idx, held, res,
                   stores, bcast, ticks, cons>>

\* return n, with the deferred v.subM.Unlock()
SubscribeUnlock(p) ==
    /\ pc[p] = "sub_unlock"
    /\ subM' = [subM EXCEPT !.writer = NoOne]
    /\ pc' = [pc EXCEPT ![p] = "idle"]
    /\ op' = [op EXCEPT ![p] = "none"]
    /\ n' = [n EXCEPT ![p] = 0]
    /\ res' = Result("Subscribe", "returned", TickerV(n[p]), FALSE, {}, {})
    /\ held' = [held EXCEPT ![n[p]] = TRUE]
    /\ UNCHANGED <<value, subs, pending, rng, idx, stores,
                   bcast, ticks, cons>>

(* ----------------------------------------------------- Ticker.Tick --- *)
\* case <-ticker.Tick(): the holder of the ticker takes the pending wake.
Drain(i) ==
    /\ held[i]
    /\ TickReady(pending[i])
    /\ pending' = [pending EXCEPT ![i] = TickTake(@)]
    /\ drained' = [drained EXCEPT ![i] = TRUE]
    /\ UNCHANGED <<value, subs, subM, locals, held, res, stores, bcast,
                   wakeIdx, cons>>

(* ------------------------------------------------------ specification --- *)
Tickers == 1..Len(pending)

Next ==
    \/ \E p \in Callers : Get(p)
    \/ \E p \in Callers : \E v \in Values : Set(p, v)
    \/ \E p \in Callers : SetRLock(p)
    \/ \E p \in Callers : SetNotify(p)
    \/ \E p \in Callers : SetRUnlock(p)
    \/ \E p \in Callers : Subscribe(p)
    \/ \E p \in Callers : SubscribeLock(p)
    \/ \E p \in Callers : SubscribeAppend(p)
    \/ \E p \in Callers : SubscribeUnlock(p)
    \/ \E i \in Tickers : Drain(i)

Spec == Init /\ [][Next]_vars

\* The producers and the Subscribe callers alone, with one value that
\* Store takes and one it rejects; Get takes no lock and writes nothing
\* shared, so it is left to Spec.
SetValues == {Nil, IntV(5)}

NextSet ==
    \/ \E p \in Callers : \E v \in SetValues : Set(p, v)
    \/ \E p \in Callers : SetRLock(p)
    \/ \E p \in Callers : SetNotify(p)
    \/ \E p \in Callers : SetRUnlock(p)
    \/ \E p \in Callers : Subscribe(p)
    \/ \E p \in Callers : SubscribeLock(p)
    \/ \E p \in Callers : SubscribeAppend(p)
    \/ \E p \in Callers : SubscribeUnlock(p)
    \/ \E i \in Tickers : Drain(i)

\* Scheduling: a goroutine inside Set or Subscribe that can take its next
\* step from some point on takes it.  Nothing is assumed of the holders of
\* the Tickers: a Ticker may stay undrained for ever.
Fairness ==
    \A p \in Callers :
        /\ WF_vars(SetRLock(p))
        /\ WF_vars(SetNotify(p))
        /\ WF_vars(SetRUnlock(p))
        /\ WF_vars(SubscribeLock(p))
        /\ WF_vars(SubscribeAppend(p))
        /\ WF_vars(SubscribeUnlock(p))

SpecFair == Init /\ [][NextSet]_vars /\ Fairness

(* ------------------------------------------- Get by a further goroutine --- *)
\* The goroutines waiting in RLock of Set.
WaitingRLock == {p \in Callers : pc[p] = "set_rlock"}

\* Mutation: a Get that reads under the read lock of subM.
ReaderGetRLocks ==
    /\ subM.writer = NoOne
    /\ res' = Result("Get", "returned", Load(value), FALSE, {}, {})
               @@ [lock |-> subM, waiting |-> WaitingRLock]
    /\ UNCHANGED <<shared, locals, held, stores, bcast, ticks, cons>>

\* Value.Get called by a goroutine other than the Callers (a consumer such
\* as the worker of a module), whatever the Callers are in the middle of.
\* Its record also keeps the mutex and the goroutines waiting for it as
\* they were at the instant of the load.
ReaderGet ==
    /\ res' = Result("Get", "returned", Load(value), FALSE, {}, {})
               @@ [lock |-> subM, waiting |-> WaitingRLock]
    /\ UNCHANGED <<shared, locals, held, stores, bcast, ticks, cons>>

NextRead ==
    \/ NextSet
    \/ ReaderGet

SpecRead == Init /\ [][NextRead]_vars

(* --------------------------------------------------------- ErrorValue --- *)
\* Mutation: the uninitialised ErrorValue reported as an error.
ErrorValueGetErrUnset(x) ==
    IF TypeOf(x) = "valueOrErr" THEN PairV(x.value, x.err)
    ELSE PairV(Nil, ErrV(0))

\* if v, ok := e.v.Get().(valueOrErr); ok { return v.value, v.err }
\* return nil, nil
ErrorValueGet(x) ==
    IF TypeOf(x) = "valueOrErr" THEN PairV(x.value, x.err) ELSE PairV(Nil, Nil)

EVGet(p) ==
    /\ pc[p] = "idle"
    /\ res' = Result("Get", "returned", ErrorValueGet(Load(value)), FALSE, {}, {})
    /\ UNCHANGED <<shared, locals, held, stores, bcast, ticks, cons>>

\* The error field of a loaded record, nil for an empty slot.
ErrOf(x) == IF TypeOf(x) = "valueOrErr" THEN x.err ELSE Nil
\* The payload field of a loaded record, nil for an empty slot.
PayloadOf(x) == IF TypeOf(x) = "valueOrErr" THEN x.value ELSE Nil

\* Mutation: a Set that leaves the error of the stored record in place.
EVSetKeepsErr(p, v) == SetStore(p, valueOrErr(v, ErrOf(value)), "Set", v)
\* e.v.Set(valueOrErr{value: value})
EVSet(p, v) == SetStore(p, valueOrErr(v, Nil), "Set", v)

\* Mutations: the nil check dropped, and the nil check inverted.
IsNoErrorNever(err) == FALSE
IsNoErrorInverted(err) == err # Nil

\* if err == nil { return false }
IsNoError(err) == err = Nil

\* Mutation: an Error that leaves the payload of the stored record in place.
EVErrorKeepsValue(p, err) ==
    IF IsNoError(err)
    THEN /\ pc[p] = "idle"
         /\ res' = Result("Error", "returned", BoolV(FALSE), FALSE, {}, {})
         /\ UNCHANGED <<shared, locals, held, stores, bcast, ticks, cons>>
    ELSE SetStore(p, valueOrErr(PayloadOf(value), err), "Error", err)

\* e.v.Set(valueOrErr{err: err}); return true
EVError(p, err) ==
    IF IsNoError(err)
    THEN /\ pc[p] = "idle"
         /\ res' = Result("Error", "returned", BoolV(FALSE), FALSE, {}, {})
         /\ UNCHANGED <<shared, locals, held, stores, bcast, ticks, cons>>
    ELSE SetStore(p, valueOrErr(Nil, err), "Error", err)

\* return e.v.Subscribe()
EVSubscribe(p) == Subscribe(p)

NextEV ==
    \/ \E p \in Callers : EVGet(p)
    \/ \E p \in Callers : \E v \in Payloads : EVSet(p, v)
    \/ \E p \in Callers : \E e \in Errors : EVError(p, e)
    \/ \E p \in Callers : SetRLock(p)
    \/ \E p \in Callers : SetNotify(p)
    \/ \E p \in Callers : SetRUnlock(p)
    \/ \E p \in Callers : EVSubscribe(p)
    \/ \E p \in Callers : SubscribeLock(p)
    \/ \E p \in Callers : SubscribeAppend(p)
    \/ \E p \in Callers : SubscribeUnlock(p)
    \/ \E i \in Tickers : Drain(i)

SpecEV == Init /\ [][NextEV]_vars

(* ------------------------------------------------- consumer of a Value --- *)
\* Subscribe returns to the consumer goroutine: the deferred v.subM.Unlock()
\* runs and the Ticker becomes the consumer's local; the consumer goes on
\* at the position to.
SubscribeReturn(to) ==
    /\ pc[Worker] = "sub_unlock"
    /\ subM' = [subM EXCEPT !.writer = NoOne]
    /\ pc' = [pc EXCEPT ![Worker] = "idle"]
    /\ op' = [op EXCEPT ![Worker] = "none"]
    /\ n' = [n EXCEPT ![Worker] = 0]
    /\ held' = [held EXCEPT ![n[Worker]] = TRUE]
    /\ wtk' = n[Worker]
    /\ wpc' = to
    /\ UNCHANGED <<value, subs, pending, rng, idx, res, stores, bcast, ticks,
                   wfn>>

\* case <-ticker.Tick(): the consumer takes the pending wake of its Ticker
\* and goes on at the position to.
TickReceive(to) ==
    /\ TickReady(pending[wtk])
    /\ pending' = [pending EXCEPT ![wtk] = TickTake(@)]
    /\ drained' = [drained EXCEPT ![wtk] = TRUE]
    /\ wpc' = to
    /\ UNCHANGED <<value, subs, subM, locals, held, res, stores, bcast,
                   wakeIdx, wfn, wtk>>

\* A step of the consumer that touches nothing but its position.
Goto(to) ==
    /\ wpc' = to
    /\ UNCHANGED <<shared, locals, held, res, stores, bcast, ticks, wfn, wtk>>

\* A consumer as the Value expects it: Subscribe, then Get, then Get again
\* after every wake of the Ticker.
ConsumerStart ==
    /\ wpc = "off"
    /\ Goto("c_subscribe")

ConsumerSubscribe ==
    /\ wpc = "c_subscribe"
    /\ Subscribe(Worker)

ConsumerSubscribed ==
    /\ wpc = "c_subscribe"
    /\ SubscribeReturn("c_get")

\* Mutation: a Get that keeps what the consumer read before.
ConsumerGetKeeps ==
    /\ wpc = "c_get"
    /\ Goto("c_wait")

ConsumerGet ==
    /\ wpc = "c_get"
    /\ wfn' = Load(value)
    /\ wpc' = "c_wait"
    /\ UNCHANGED <<shared, locals, held, res, stores, bcast, ticks, wtk>>

ConsumerTick ==
    /\ wpc = "c_wait"
    /\ TickReceive("c_get")

\* What the producers pass to Set next to such a consumer.  The Callers
\* also subscribe; their Tickers are left undrained.
ConsumerValues == {Nil, IntV(5), IntV(7)}

NextConsumer ==
    \/ \E p \in Callers : \E v \in ConsumerValues : Set(p, v)
    \/ \E p \in Callers : SetRLock(p)
    \/ \E p \in Callers : SetNotify(p)
    \/ \E p \in Callers : SetRUnlock(p)
    \/ \E p \in Callers : Subscribe(p)
    \/ \E p \in Callers : SubscribeLock(p)
    \/ \E p \in Callers : SubscribeAppend(p)
    \/ \E p \in Callers : SubscribeUnlock(p)
    \/ ConsumerStart
    \/ ConsumerSubscribe
    \/ SubscribeLock(Worker)
    \/ SubscribeAppend(Worker)
    \/ ConsumerSubscribed
    \/ ConsumerGet
    \/ ConsumerTick

SpecConsumer == Init /\ [][NextConsumer]_vars

(* ------------------------------------- modules: netspeed and wlan --- *)
\* A value of the type of outputFunc, func(Speeds) bar.Output in netspeed
\* and func(Info) bar.Output in wlan.
FuncV(k) == [typ |-> "func", val |-> k]
\* The output function the constructor sets, and those a caller configures.
DefaultFunc == FuncV(0)
Funcs == {FuncV(1), FuncV(2)}
IsFunc(x) == TypeOf(x) = "func"

\* Mutation: the module handed out before the constructor has set the
\* default output function.
BuiltAtOnce == TRUE
\* The constructor has returned the module: its Set of the default output
\* function is over (every other Set is called on the returned module).
Built == nsets > 1 \/ (nsets = 1 /\ NoSetInFlight)

\* The positions of the consumer in a netspeed module and in a wlan module.
NetspeedPcs ==
    {"ns_new", "ns_link", "ns_get", "ns_subscribe", "ns_render",
     "ns_select", "ns_reget", "ns_exit"}
WlanPcs == {"wl_new", "wl_get", "wl_update", "wl_select", "wl_reget"}

\* netspeed New: m := &module{...}
NewModule ==
    /\ wpc = "off"
    /\ Goto("ns_new")

\* netspeed New: m.OutputTemplate(...), which is m.OutputFunc(...), which
\* is m.outputFunc.Set(outputFunc).
New(p) ==
    /\ wpc = "ns_new"
    /\ nsets = 0
    /\ Set(p, DefaultFunc)

\* netspeed OutputFunc, called on a module that New has returned.
OutputFunc(p, f) ==
    /\ wpc \in NetspeedPcs
    /\ Built
    /\ Set(p, f)

\* wlan Named: m := &Module{intf: iface}
NamedModule ==
    /\ wpc = "off"
    /\ Goto("wl_new")

\* wlan Named: m.Template(...), which ends in m.Output(...), which is
\* m.outputFunc.Set(outputFunc).
Named(p) ==
    /\ wpc = "wl_new"
    /\ nsets = 0
    /\ Set(p, DefaultFunc)

\* wlan Output, called on a module that Named has returned.
Output(p, f) ==
    /\ wpc \in WlanPcs
    /\ Built
    /\ Set(p, f)

\* outputFunc = m.outputFunc.Get().(func(...) bar.Output): the assertion
\* panics on a value that is no function, nil included.
GetAssert(to) ==
    /\ IF IsFunc(Load(value))
       THEN wfn' = Load(value) /\ wpc' = to
       ELSE wfn' = wfn /\ wpc' = "panicked"
    /\ UNCHANGED <<shared, locals, held, res, stores, bcast, ticks, wtk>>

(* netspeed: Stream and worker *)
\* go m.worker(ch)
Stream ==
    /\ wpc = "ns_new"
    /\ Built
    /\ Goto("ns_link")

\* lastRx, lastTx, err := linkRxTx(m.iface); if ch.Error(err) { return }
WorkerLink(ok) ==
    /\ wpc = "ns_link"
    /\ Goto(IF ok THEN "ns_get" ELSE "ns_exit")

\* outputFunc := m.outputFunc.Get().(func(Speeds) bar.Output)
WorkerGet ==
    /\ wpc = "ns_get"
    /\ GetAssert("ns_subscribe")

\* sOutputFunc := m.outputFunc.Subscribe()
WorkerSubscribe ==
    /\ wpc = "ns_subscribe"
    /\ Subscribe(Worker)

WorkerSubscribed ==
    /\ wpc = "ns_subscribe"
    /\ SubscribeReturn("ns_render")

\* if speeds.available { ch.Output(outputFunc(speeds)) }
WorkerRender ==
    /\ wpc = "ns_render"
    /\ Goto("ns_select")

\* case <-sOutputFunc.Tick():
WorkerTick ==
    /\ wpc = "ns_select"
    /\ TickReceive("ns_reget")

\* outputFunc = m.outputFunc.Get().(func(Speeds) bar.Output)
WorkerReget ==
    /\ wpc = "ns_reget"
    /\ GetAssert("ns_render")

\* case <-m.scheduler.Tick(): ... if ch.Error(err) { return } ...
WorkerSchedule(ok) ==
    /\ wpc = "ns_select"
    /\ Goto(IF ok THEN "ns_render" ELSE "ns_exit")

(* wlan: Stream *)
WlanStream ==
    /\ wpc = "wl_new"
    /\ Built
    /\ Goto("wl_get")

\* outputFunc := m.outputFunc.Get().(func(Info) bar.Output)
WlanGet ==
    /\ wpc = "wl_get"
    /\ GetAssert("wl_update")

\* case <-m.outputFunc.Update(): evaluated when the select is entered.  The
\* Value of src/base/value.go has no method Update; the one operation of a
\* Value that yields a wait handle is Subscribe, so that Update() is taken
\* as Subscribe().Tick().
WlanUpdate ==
    /\ wpc = "wl_update"
    /\ Subscribe(Worker)

WlanUpdated ==
    /\ wpc = "wl_update"
    /\ SubscribeReturn("wl_select")

\* case update := <-updateChan: ...; s.Output(outputFunc(info))
WlanNetlink ==
    /\ wpc = "wl_select"
    /\ Goto("wl_update")

\* case <-m.outputFunc.Update():
WlanTick ==
    /\ wpc = "wl_select"
    /\ TickReceive("wl_reget")

\* outputFunc = m.outputFunc.Get().(func(Info) bar.Output);
\* s.Output(outputFunc(info))
WlanReget ==
    /\ wpc = "wl_reget"
    /\ GetAssert("wl_update")

\* One module with its one consumer goroutine; the Callers configure it.
NextModule ==
    \/ NewModule
    \/ \E p \in Callers : New(p)
    \/ NamedModule
    \/ \E p \in Callers : Named(p)
    \/ \E p \in Callers : \E f \in Funcs : OutputFunc(p, f)
    \/ \E p \in Callers : \E f \in Funcs : Output(p, f)
    \/ \E p \in Callers : SetRLock(p)
    \/ \E p \in Callers : SetNotify(p)
    \/ \E p \in Callers : SetRUnlock(p)
    \/ SubscribeLock(Worker)
    \/ SubscribeAppend(Worker)
    \/ Stream
    \/ \E ok \in BOOLEAN : WorkerLink(ok)
    \/ WorkerGet
    \/ WorkerSubscribe
    \/ WorkerSubscribed
    \/ WorkerRender
    \/ WorkerTick
    \/ WorkerReget
    \/ \E ok \in BOOLEAN : WorkerSchedule(ok)
    \/ WlanStream
    \/ WlanGet
    \/ WlanUpdate
    \/ WlanUpdated
    \/ WlanNetlink
    \/ WlanTick
    \/ WlanReget

SpecModule == Init /\ [][NextModule]_vars

(* ============================================================ claims === *)
NoDup(s) == \A k, l \in 1..Len(s) : k # l => s[k] # s[l]

\* C1: after any sequence of Value.Set calls made one after another, Get
\* returns the value passed to the last Set call.
C1_LastWriteWins ==
    (last.op = "Set" /\ last.seq /\ NoSetInFlight) => Load(value) = last.arg

\* C2: a Ticker that Subscribe had returned when a Set call began and that
\* was not drained since holds exactly one pending wake once that call has
\* ended, whatever the number of Set calls before it.
C2_Coalesced ==
    \A i \in Tickers :
        (res.op = "Set" /\ i \in res.start /\ ~drained[i]) => pending[i] = 1

\* C3: a Set call that ended has called Notify exactly once on every
\* subscriber that was in the list when it began.
C3_NotifiedOnce == res.op = "Set" => res.missed = {}

\* C4: every Get returns the value stored most recently at the instant of
\* its load, and the unset sentinel nil only while no Set has stored.
C4_NoTornRead ==
    [][\A p \in Callers :
        Get(p) => /\ res'.status = "returned"
                  /\ res'.ret = lastStored
                  /\ (res'.ret = Nil <=> nstored = 0)]_vars

C4_Witness ==
    /\ res.op = "Get"
    /\ res.ret = IntV(7)
    /\ nstored = 2
    /\ \E p \in Callers : SetInFlight(p)

\* C5: while a Ticker is pending, a Set that notified it has stored and the
\* slot holds the newest stored value, which is that Set's or a later one;
\* a drain taken after the Sets have returned (Subscribe; Set(5); Set(7);
\* drain) leaves the Ticker idle with Get yielding the last Set's value.
C5_WakeAfterValue ==
    /\ [](\A i \in Tickers :
            pending[i] > 0 => /\ wakeIdx[i] \in 1..nstored
                              /\ Load(value) = lastStored)
    /\ [][\A i \in Tickers :
            (pending'[i] < pending[i] /\ NoSetInFlight /\ wakeIdx[i] = nsets)
            => /\ pending'[i] = 0
               /\ Load(value') = last.arg]_vars

C5_Witness ==
    /\ Len(pending) >= 1
    /\ held[1] /\ drained[1] /\ pending[1] = 0
    /\ wakeIdx[1] = 2 /\ nsets = 2
    /\ NoSetInFlight
    /\ last.arg = IntV(7)
    /\ res.op = "Get" /\ res.ret = IntV(7)

\* C6: every Subscribe returns a Ticker of its own that is registered in
\* the list; after a completed Set every Ticker returned before it began
\* and not drained is pending; taking the wake of one Ticker changes neither
\* another Ticker's pending state nor the stored value.
C6_FanOut ==
    /\ [](/\ NoDup(subs)
          /\ \A i \in Tickers : held[i] => i \in Range(subs)
          /\ \A p, q \in Callers :
                (p # q /\ op[p] = "Subscribe" /\ op[q] = "Subscribe")
                => n[p] # n[q]
          /\ (res.op = "Set" /\ res.status = "returned")
             => \A i \in res.start : ~drained[i] => pending[i] = 1)
    /\ [][\A i \in Tickers :
            pending'[i] < pending[i]
            => /\ value' = value
               /\ \A j \in Tickers \ {i} : pending'[j] = pending[j]]_vars

C6_Witness ==
    /\ Len(subs) = 2
    /\ res.op = "Set" /\ res.status = "returned" /\ res.start = {1, 2}
    /\ nsets = 1
    /\ drained[1] /\ pending[1] = 0
    /\ ~drained[2] /\ pending[2] = 1
    /\ value = lastStored /\ value # Nil

\* C8: no call of Get, Set or Subscribe ends in a panic.
C8_CannotFail == res.status # "panicked"

(* ---------------------------------------------- claims on ErrorValue --- *)
\* C7: while nothing was stored, Value.Get returns nil and ErrorValue.Get
\* returns (nil, nil), normally, however many Subscribe and Get calls
\* came before.
C7_UnsetGet ==
    /\ [](nstored = 0 => /\ Load(value) = Nil
                         /\ ErrorValueGet(Load(value)) = PairV(Nil, Nil))
    /\ [][\A p \in Callers :
            (EVGet(p) /\ nstored = 0)
            => /\ res'.status = "returned"
               /\ res'.ret = PairV(Nil, Nil)]_vars

C7_Witness ==
    /\ nstored = 0
    /\ Len(subs) >= 1
    /\ res.op = "Get" /\ res.ret = PairV(Nil, Nil)

\* C9: ErrorValue.Error(nil) returns false and changes nothing: the pair
\* that Get returns, the subscriber list and every Ticker stay as they were.
C9_ErrorNilNoop ==
    [][\A p \in Callers :
        EVError(p, Nil)
        => /\ res'.op = "Error" /\ res'.ret = BoolV(FALSE)
           /\ ErrorValueGet(Load(value')) = ErrorValueGet(Load(value))
           /\ value' = value
           /\ pending' = pending
           /\ subs' = subs]_vars

C9_Witness ==
    /\ res.op = "Error" /\ res.ret = BoolV(FALSE)
    /\ ErrorValueGet(Load(value)) = PairV(Nil, ErrV(1))
    /\ \E i \in Tickers : held[i] /\ pending[i] = 0

\* C10: ErrorValue.Error(err) with a non-nil err stores the error in place
\* of whatever was stored, so that Get returns (nil, err), goes through the
\* broadcast of Set (every subscriber listed at its start notified once,
\* every Ticker returned before it pending unless drained) and returns true.
C10_ErrorStores ==
    /\ [][\A p \in Callers : \A e \in Errors \ {Nil} :
            EVError(p, e)
            => /\ ErrorValueGet(Load(value')) = PairV(Nil, e)
               /\ op'[p] = "Error"
               /\ pc'[p] = "set_rlock"]_vars
    /\ [](/\ (res.op = "Error" /\ res.stored)
             => /\ res.status = "returned"
                /\ res.ret = BoolV(TRUE)
                /\ res.missed = {}
                /\ \A i \in res.start : ~drained[i] => pending[i] = 1
          /\ (last.op = "Error" /\ last.seq /\ NoSetInFlight)
             => ErrorValueGet(Load(value)) = PairV(Nil, last.arg))

C10_Witness ==
    /\ res.op = "Error" /\ res.ret = BoolV(TRUE)
    /\ nstored = 2
    /\ value = valueOrErr(Nil, ErrV(1))
    /\ \E i \in res.start : held[i] /\ pending[i] = 1

\* C11: ErrorValue.Get returns the pair of the last call that was a Set or
\* an Error with a non-nil argument, (p, nil) after Set(p) and (nil, e)
\* after Error(e); every other step (Get, Subscribe, the broadcast, a drain,
\* Error(nil)) leaves the pair that Get returns as it was.
LastPair ==
    IF last.op = "Set" THEN PairV(last.arg, Nil)
    ELSE IF last.op = "Error" THEN PairV(Nil, last.arg)
    ELSE PairV(Nil, Nil)

C11_LastSetOrError ==
    /\ [](ErrorValueGet(Load(value)) = LastPair)
    /\ [][/\ nsets' = nsets
              => ErrorValueGet(Load(value')) = ErrorValueGet(Load(value))
          /\ \A p \in Callers : EVGet(p) => res'.ret = LastPair]_vars

C11_Witness ==
    /\ res.op = "Error" /\ res.stored
    /\ last.op = "Set" /\ last.arg = IntV(5)
    /\ ErrorValueGet(Load(value)) = PairV(IntV(5), Nil)

\* C12: the stored record never holds a payload and an error together, and
\* no Get returns a non-nil payload with a non-nil error.
C12_PayloadOrError ==
    /\ ~(PayloadOf(value) # Nil /\ ErrOf(value) # Nil)
    /\ LET g == ErrorValueGet(Load(value)) IN ~(g.fst # Nil /\ g.snd # Nil)
    /\ res.op = "Get" => ~(res.ret.fst # Nil /\ res.ret.snd # Nil)

C12_Witness ==
    /\ nstored = 2
    /\ last.op = "Error"
    /\ res.op = "Get" /\ res.ret = PairV(Nil, ErrV(1))
    /\ \E p \in Callers : SetInFlight(p)

\* C13: every Set call that has stored returns, whether or not any Ticker
\* is ever drained: with the goroutines in Set and Subscribe scheduled
\* fairly and nothing assumed of the consumers, a Set in flight leads to
\* its return; a Notify inside the loop is enabled whatever the subscriber's
\* pending state, and the return of the loop needs no consumer step.
C13_NoBackpressure ==
    /\ \A p \in Callers : SetInFlight(p) ~> (pc[p] = "idle")
    /\ [](\A p \in Callers :
            /\ (pc[p] = "set_loop" /\ idx[p] <= Len(rng[p]))
               => ENABLED SetNotify(p)
            /\ (pc[p] = "set_loop" /\ idx[p] > Len(rng[p]))
               => ENABLED SetRUnlock(p))

C13_Witness ==
    /\ nsets = 2 /\ nstored = 2
    /\ res.op = "Set" /\ res.status = "returned" /\ res.start = {1, 2}
    /\ NoSetInFlight
    /\ pending = <<1, 1>>
    /\ drained = <<FALSE, FALSE>>
    /\ wakeIdx = <<2, 2>>

\* C14: Get is enabled in every reachable state, for a goroutine between
\* calls and for a further goroutine, whoever holds or waits for the
\* subscriber-list lock, and one step completes it with the newest stored
\* value; the store of a Set is enabled whatever the state of the lock,
\* takes effect in the step that begins the call and leaves the lock alone,
\* so that a Set waiting for the lock has already stored.
C14_GetNeverBlocked ==
    /\ [](/\ ENABLED ReaderGet
          /\ \A p \in Callers :
                /\ pc[p] = "idle" => ENABLED Get(p)
                /\ (pc[p] = "idle" /\ nsets < MaxSets)
                   => ENABLED Set(p, IntV(5))
                /\ pc[p] = "set_rlock"
                   => /\ p \notin subM.readers
                      /\ stIdx[p] \in 1..nstored
                      /\ Load(value) = lastStored)
    /\ [][/\ ReaderGet
              => /\ res'.status = "returned"
                 /\ res'.ret = lastStored
                 /\ subM' = subM
          /\ \A p \in Callers :
                Set(p, IntV(5))
                => /\ Load(value') = IntV(5)
                   /\ subM' = subM]_vars

C14_Witness ==
    /\ res.op = "Get"
    /\ res.ret = IntV(5)
    /\ res.lock.writer # NoOne
    /\ res.waiting # {}

\* C15: across every step the subscriber list keeps its contents as a
\* prefix; it changes only in the append of a Subscribe, by one entry at
\* its end that was not listed before; no entry is listed twice, every
\* Ticker that Subscribe returned is listed, and the length of the list is
\* the number of Subscribe calls that have appended.
IsPrefix(s, t) == Len(s) <= Len(t) /\ SubSeq(t, 1, Len(s)) = s

C15_AppendOnly ==
    /\ [][/\ IsPrefix(subs, subs')
          /\ subs' # subs
             => \E p \in Callers :
                    /\ pc[p] = "sub_append" /\ pc'[p] = "sub_unlock"
                    /\ subM.writer = p
                    /\ n[p] \notin Range(subs)
                    /\ subs' = Append(subs, n[p])]_vars
    /\ [](/\ NoDup(subs)
          /\ \A i \in Tickers : held[i] => Count(subs, i) = 1
          /\ Len(subs) = Cardinality({i \in Tickers : held[i]})
                         + Cardinality({p \in Callers : pc[p] = "sub_unlock"}))

C15_Witness ==
    /\ subs = <<2, 1>>
    /\ held = <<TRUE, TRUE>>
    /\ res.op = "Subscribe"
    /\ nstored >= 1

\* C17: whenever the consumer that subscribed before its first Get waits
\* with an idle Ticker while no Set call is between its store and the end
\* of its broadcast, the value it read last is the stored value.
C17_NoLostUpdate ==
    (wpc = "c_wait" /\ ~TickReady(pending[wtk]) /\ NoSetInFlight)
    => wfn = Load(value)

C17_Witness ==
    /\ wpc = "c_wait" /\ pending[wtk] = 0 /\ NoSetInFlight
    /\ nstored = 2
    /\ wfn = IntV(7)
    /\ drained[wtk]
    /\ wakeIdx[wtk] = 1

\* C18: a Ticker becomes ready only in a Notify of the broadcast loop of a
\* Set or Error call, a drain needs a ready Ticker and leaves it idle, and
\* a new Ticker starts idle whatever was stored before; so a Ticker that no
\* Set has notified is idle and was never drained, and every drain takes a
\* wake that a Notify since the drain before it has left.
C18_ReadyOnlyByNotify ==
    /\ [](\A i \in Tickers :
            wakeIdx[i] = 0 => (~TickReady(pending[i]) /\ ~drained[i]))
    /\ [][/\ \A i \in Tickers :
                /\ pending'[i] > pending[i]
                   => \E p \in Callers :
                        /\ pc[p] = "set_loop"
                        /\ idx[p] <= Len(rng[p])
                        /\ rng[p][idx[p]] = i
                        /\ idx'[p] = idx[p] + 1
                /\ pending'[i] < pending[i]
                   => /\ held[i]
                      /\ TickReady(pending[i])
                      /\ ~TickReady(pending'[i])
                /\ (drained'[i] /\ ~drained[i]) => pending'[i] < pending[i]
          /\ Len(pending') > Len(pending)
             => ~TickReady(pending'[Len(pending')])]_vars

C18_Witness ==
    /\ nstored = 2 /\ NoSetInFlight
    /\ held = <<TRUE, TRUE>>
    /\ drained = <<TRUE, FALSE>>
    /\ wakeIdx = <<1, 0>>
    /\ pending = <<0, 0>>
    /\ ErrorValueGet(Load(value)) = PairV(Nil, ErrV(1))

\* C16: the netspeed worker does not go on rendering with an output
\* function older than the latest completed Set: whenever it is in its loop
\* with an idle Ticker and no Set call is under way, so that nothing is left
\* to wake it, the function it renders with is the stored one.
C16_WorkerDelivery ==
    (/\ wpc \in {"ns_render", "ns_select"}
     /\ ~TickReady(pending[wtk])
     /\ NoSetInFlight)
    => wfn = Load(value)

\* C19: a consumer loop that runs has registered exactly one subscription
\* on its Value: the subscriber list holds one entry from the start of the
\* loop on.
InLoop ==
    wpc \in {"ns_render", "ns_select", "ns_reget",
             "wl_update", "wl_select", "wl_reget"}

C19_OneSubscription == InLoop => Len(subs) = 1

\* C20: no Get of a consumer meets the unset sentinel: once the constructor
\* has returned, the slot holds a function passed to some Set, the
\* assertion of a consumer's Get never panics, and what the consumer holds
\* after a Get is such a function.
AllFuncs == {DefaultFunc} \cup Funcs

====
